---- MODULE Spec2Model ----
(***************************************************************************)
(* Muse, an AI-assisted text editor: the editor session controller (App),  *)
(* its three generative operations (geminiService), the floating menu, the *)
(* sidebar, the welcome screen and the rich-text editor, as a state        *)
(* machine.  Text is a sequence of one-character strings.  An asynchronous *)
(* handler is split at its await: the part before it is one action, the    *)
(* part after it (with the closure of the render that started it) another. *)
(***************************************************************************)
EXTENDS Integers, Sequences, FiniteSets, TLC

\* ------------------------------------------------------------------ bounds
\* Longest text the user types into the rich-text view.
MaxLen == 2
\* Most handlers the model lets run at once (the guards of the code keep it at 1).
MaxInflight == 2
\* Longest originalText and suggestedText of a suggestion applied on its own; the
\* Document it is applied to is one character longer at most.
MaxText == 2

\* ------------------------------------------------------- program constants
\* scanForImprovements: `text.length < 50`; Analyze: `content.length < 50`.
MIN_SCAN_LENGTH == 50
\* refineSelection: `fullContext.slice(0, 1000)`.
CONTEXT_CAP == 1000
\* scanForImprovements' prompt: "identify up to 3 areas".
MAX_SUGGESTIONS == 3

\* ------------------------------------------------------------------- text
None == <<>>
Some(v) == <<v>>

Chars == {"a", " "}
WhiteSpace == {" ", "\n", "\t"}

Min(a, b) == IF a < b THEN a ELSE b
Max(a, b) == IF a > b THEN a ELSE b

\* All texts over cs of length at most n.
TextsUpTo(cs, n) == UNION {[1..k -> cs] : k \in 0..n}

\* String.prototype.substring(start, end): both clamped to [0, length], swapped
\* when start > end.
substring(s, start, end) ==
    LET a == Min(Max(start, 0), Len(s))
        b == Min(Max(end, 0), Len(s))
    IN  SubSeq(s, Min(a, b) + 1, Max(a, b))

\* String.prototype.slice(0, n) for n >= 0.
slice0(s, n) == SubSeq(s, 1, Min(n, Len(s)))

\* The least and the greatest element of a non-empty set of integers.
Least(S) == CHOOSE x \in S : \A y \in S : x <= y
Greatest(S) == CHOOSE x \in S : \A y \in S : y <= x

\* The concatenation of the sequences ss[lo], ..., ss[hi].
RECURSIVE flattenRange(_, _, _)
flattenRange(ss, lo, hi) ==
    IF lo > hi THEN <<>>
    ELSE IF lo = hi THEN ss[lo]
    ELSE LET mid == (lo + hi) \div 2
         IN  flattenRange(ss, lo, mid) \o flattenRange(ss, mid + 1, hi)

Flatten(ss) == flattenRange(ss, 1, Len(ss))

\* String.prototype.trimStart(), trimEnd() and trim().
trimStart(s) ==
    LET ink == {i \in 1..Len(s) : s[i] \notin WhiteSpace}
    IN  IF ink = {} THEN <<>> ELSE SubSeq(s, Least(ink), Len(s))

trimEnd(s) ==
    LET ink == {i \in 1..Len(s) : s[i] \notin WhiteSpace}
    IN  IF ink = {} THEN <<>> ELSE SubSeq(s, 1, Greatest(ink))

trim(s) == trimEnd(trimStart(s))

\* String.prototype.indexOf(pat): the least 0-based position of pat, or -1.
indexOf(s, pat) ==
    LET hits == {i \in 0..(Len(s) - Len(pat)) : SubSeq(s, i + 1, i + Len(pat)) = pat}
    IN  IF hits = {} THEN -1 ELSE Least(hits)

\* The backtick and the apostrophe, written as tokens.
Backtick == "<backtick>"
Apostrophe == "<apostrophe>"

\* GetSubstitution of String.prototype.replace for a string pattern (no captures):
\* in the replacement text "$$" stands for "$", "$&" for the match, "$" + backtick
\* for the text before the match and "$" + apostrophe for the text after it; any
\* other "$" is literal.
\* The template is read left to right, so in a run of "$" the odd ones start a
\* pattern and the even ones end a "$$"; dollarsBefore(tpl, i) is the length of
\* the run of "$" that ends just before position i.
SubstitutionChars == {"$", "&", Backtick, Apostrophe}

dollarsBefore(tpl, i) ==
    LET others == {j \in 1..(i - 1) : tpl[j] # "$"}
    IN  IF others = {} THEN i - 1 ELSE i - 1 - Greatest(others)

GetSubstitution(tpl, matched, before, after) ==
    LET startsPattern(i) ==
            /\ tpl[i] = "$"
            /\ dollarsBefore(tpl, i) % 2 = 0
            /\ i < Len(tpl)
            /\ tpl[i + 1] \in SubstitutionChars
        endsPattern(i) == i > 1 /\ startsPattern(i - 1)
        piece(i) ==
            IF startsPattern(i)
            THEN CASE tpl[i + 1] = "$" -> <<"$">>
                   [] tpl[i + 1] = "&" -> matched
                   [] tpl[i + 1] = Backtick -> before
                   [] tpl[i + 1] = Apostrophe -> after
            ELSE IF endsPattern(i) THEN <<>>
            ELSE <<tpl[i]>>
    IN  Flatten([i \in 1..Len(tpl) |-> piece(i)])

\* A replacement by position that does not test whether the pattern was found:
\* slice(0, pos) + replacement + slice(pos + length) with pos = -1 when absent.
replaceBySplice(str, pattern, replacement) ==
    LET pos == indexOf(str, pattern)
        before == IF pos = -1 THEN SubSeq(str, 1, Len(str) - 1) ELSE SubSeq(str, 1, pos)
        after  == SubSeq(str, pos + Len(pattern) + 1, Len(str))
    IN  before \o GetSubstitution(replacement, pattern, before, after) \o after

\* str.replace(pattern, replacement) with a string pattern: the first occurrence
\* only, the replacement expanded by GetSubstitution; str itself when absent.
replace(str, pattern, replacement) ==
    LET pos == indexOf(str, pattern)
    IN  IF pos = -1 THEN str
        ELSE LET before == SubSeq(str, 1, pos)
                 after  == SubSeq(str, pos + Len(pattern) + 1, Len(str))
             IN  before \o GetSubstitution(replacement, pattern, before, after) \o after

\* ------------------------------------------------- marked.parse / turndown
\* HTML is a sequence of tokens: the tags "<h1>", "</h1>", "<p>", "</p>", "<ul>",
\* "</ul>", "<li>", "</li>", "<span>" (the highlight marker, with its class
\* attribute) and "</span>", and the characters of the text between them.
BlockOpen == {"<h1>", "<p>", "<ul>"}
BlockClose == {"</h1>", "</p>", "</ul>"}
ItemTags == {"<li>", "</li>"}
SpanTags == {"<span>", "</span>"}

\* The characters that open an item of an unordered list.
BulletMarkers == {"-", "*", "+"}

\* The lines of a text (split at "\n").
RECURSIVE Lines(_)
Lines(s) ==
    LET nl == indexOf(s, <<"\n">>)
    IN  IF nl = -1 THEN <<s>>
        ELSE <<SubSeq(s, 1, nl)>> \o Lines(SubSeq(s, nl + 2, Len(s)))

isHeading(line) == Len(line) >= 2 /\ line[1] = "#" /\ line[2] = " "

\* A line that opens a list item: a bullet marker, a space and some text.
isBullet(line) ==
    /\ Len(line) >= 3
    /\ line[1] \in BulletMarkers
    /\ line[2] = " "
    /\ trim(SubSeq(line, 3, Len(line))) # <<>>

\* The number of leading lines that are items of one list: bullet lines with the
\* marker of the first.
bulletRun(lines) ==
    LET other == {i \in 1..Len(lines) : ~isBullet(lines[i]) \/ lines[i][1] # lines[1][1]}
    IN  IF other = {} THEN Len(lines) ELSE Least(other) - 1

\* The <ul> of a run of item lines.
listHtml(items) ==
    <<"<ul>">>
    \o Flatten([i \in 1..Len(items) |->
                   <<"<li>">> \o trim(SubSeq(items[i], 3, Len(items[i]))) \o <<"</li>">>])
    \o <<"</ul>", "\n">>

\* marked.parse over lines: an ATX heading line is an <h1>, a run of item lines
\* with one bullet marker a <ul> of <li>, a run of other non-blank lines a <p>
\* (its lines joined by "\n"), blank lines separate blocks.
\* `open` is the text of the paragraph being collected (None when there is none).
RECURSIVE parseLines(_, _)
parseLines(lines, open) ==
    LET flush == IF open = None THEN <<>>
                 ELSE <<"<p>">> \o open[1] \o <<"</p>", "\n">>
    IN  IF lines = <<>> THEN flush
        ELSE LET l == Head(lines)
             IN  IF trim(l) = <<>> THEN flush \o parseLines(Tail(lines), None)
                 ELSE IF isHeading(l)
                 THEN flush \o <<"<h1>">> \o trim(SubSeq(l, 3, Len(l))) \o <<"</h1>", "\n">>
                      \o parseLines(Tail(lines), None)
                 ELSE IF isBullet(l) /\ open = None
                 THEN LET n == bulletRun(lines)
                      IN  listHtml(SubSeq(lines, 1, n))
                          \o parseLines(SubSeq(lines, n + 1, Len(lines)), None)
                 ELSE parseLines(Tail(lines),
                                 IF open = None THEN Some(trimStart(l))
                                 ELSE Some(open[1] \o <<"\n">> \o trimStart(l)))

marked_parse(md) == parseLines(Lines(md), None)

\* The highlight of the sync effect: html.replace(new RegExp(safeText, 'g'), span),
\* every non-overlapping occurrence of the (escaped, so literal) text, left to
\* right, replaced by the marker span around the replacement text, in which the
\* "$" patterns of String.prototype.replace are expanded.
\* The positions where text occurs in html, and of these the matches a global
\* replace takes: from the left, each the first occurrence at or after the end
\* of the match before it.
occurrences(html, text) ==
    {i \in 1..(Len(html) - Len(text) + 1) : SubSeq(html, i, i + Len(text) - 1) = text}

RECURSIVE matchesFrom(_, _, _)
matchesFrom(occ, from, len) ==
    LET left == {i \in occ : i >= from}
    IN  IF left = {} THEN {}
        ELSE {Least(left)} \cup matchesFrom(occ, Least(left) + len, len)

matches(html, text) ==
    LET occ == occurrences(html, text)
    IN  IF \A i, j \in occ : i < j => i + Len(text) <= j THEN occ
        ELSE matchesFrom(occ, 1, Len(text))

highlightAll(html, text) ==
    LET ms == matches(html, text)
        piece(i) ==
            IF i \in ms
            THEN <<"<span>">>
                 \o GetSubstitution(text, text, SubSeq(html, 1, i - 1),
                                    SubSeq(html, i + Len(text), Len(html)))
                 \o <<"</span>">>
            ELSE IF \E m \in ms : m < i /\ i < m + Len(text) THEN <<>>
            ELSE <<html[i]>>
    IN  Flatten([i \in 1..Len(html) |-> piece(i)])

\* The HTML the sync effect writes for a Document and a highlight (None or Some).
renderHtml(md, highlightText) ==
    IF highlightText # None /\ highlightText[1] # <<>>
    THEN highlightAll(marked_parse(md), highlightText[1])
    ELSE marked_parse(md)

hasHighlightSpan(html) == \E i \in 1..Len(html) : html[i] = "<span>"

\* collapse runs of white space to one space and trim (turndown's collapseWhitespace).
collapse(s) ==
    Flatten([i \in 1..Len(s) |->
                IF s[i] \notin WhiteSpace THEN <<s[i]>>
                ELSE IF i > 1 /\ s[i - 1] \in WhiteSpace THEN <<>>
                ELSE <<" ">>])

\* turndown's list rule for the inside of a <ul>: each <li> becomes the bullet
\* marker (bulletListMarker is not configured, so "*"), three spaces and the
\* item's text, the items one per line.
listText(text) ==
    LET opens == {i \in 1..Len(text) : text[i] = "<li>"}
        close(i) == Least({j \in (i + 1)..(Len(text) + 1) :
                              j = Len(text) + 1 \/ text[j] = "</li>"})
        item(i) == trim(collapse(SelectSeq(SubSeq(text, i + 1, close(i) - 1),
                                           LAMBDA x : x \notin SpanTags \cup ItemTags)))
    IN  Flatten([i \in 1..Len(text) |->
                    IF i \notin opens THEN <<>>
                    ELSE (IF i = Least(opens) THEN <<>> ELSE <<"\n">>)
                         \o <<"*", " ", " ", " ">> \o item(i)])

\* turndown's blocks: the text of each block element, and of each run of text
\* outside a block, in order (`tag` is the block the text up to the next tag is
\* in, "" outside a block); inline <span> tags are dropped, their text kept.
blockText(tag, text) ==
    LET t == trim(collapse(SelectSeq(text, LAMBDA x : x \notin SpanTags)))
    IN  IF tag = "<ul>"
        THEN (IF listText(text) = <<>> THEN <<>> ELSE <<listText(text)>>)
        ELSE IF t = <<>> THEN <<>>
        ELSE <<(IF tag = "<h1>" THEN <<"#", " ">> ELSE <<>>) \o t>>

RECURSIVE htmlBlocks(_, _)
htmlBlocks(html, tag) ==
    LET tags == {i \in 1..Len(html) : html[i] \in BlockOpen \cup BlockClose}
    IN  IF tags = {} THEN blockText(tag, html)
        ELSE LET k == Least(tags)
             IN  blockText(tag, SubSeq(html, 1, k - 1))
                 \o htmlBlocks(SubSeq(html, k + 1, Len(html)),
                               IF html[k] \in BlockOpen THEN html[k] ELSE "")

RECURSIVE joinBlocks(_)
joinBlocks(bs) ==
    IF bs = <<>> THEN <<>>
    ELSE IF Len(bs) = 1 THEN bs[1]
    ELSE bs[1] \o <<"\n", "\n">> \o joinBlocks(Tail(bs))

\* turndownService.turndown(html), headingStyle atx: blocks joined by a blank line.
turndown(html) == joinBlocks(htmlBlocks(html, ""))

\* The user types character c at the end of the last block of the view (at the end
\* of the view when it has no block; in the last item when the block is a list).
typeInto(html, c) ==
    LET closes == {i \in 1..Len(html) : html[i] \in (BlockClose \ {"</ul>"}) \cup {"</li>"}}
    IN  IF closes = {} THEN html \o <<c>>
        ELSE LET k == Greatest(closes)
             IN  SubSeq(html, 1, k - 1) \o <<c>> \o SubSeq(html, k, Len(html))

\* The text of a view: its characters without the tags.
htmlText(html) ==
    SelectSeq(html, LAMBDA t : t \notin (BlockOpen \cup BlockClose \cup ItemTags \cup SpanTags))

\* ----------------------------------------------------------- geminiService
\* A getAiClient that builds the client with whatever key there is.
getAiClientUnchecked(key) == [threw |-> FALSE]

\* getAiClient: throws when process.env.API_KEY is not set.
getAiClient(key) == [threw |-> ~key]

\* A backend response: the call failed ("error"), the response has no text
\* ("empty": response.text is undefined, e.g. a blocked response), or it has text.
Response(kind, text) == [kind |-> kind, text |-> text]
ErrorResponse == Response("error", <<>>)
EmptyResponse == Response("empty", <<>>)

\* A generateDraft that sends the request only when there are instructions, so
\* that attachments alone issue no call.
generateDraftCallTextOnly(prompt, files, key) ==
    IF getAiClient(key).threw THEN [threw |-> TRUE, calls |-> 0]
    ELSE [threw |-> FALSE, calls |-> IF trim(prompt) = <<>> THEN 0 ELSE 1]

\* generateDraft up to its await: the client is built first, and then exactly one
\* ai.models.generateContent call is issued, whatever the prompt and attachments.
generateDraftCall(prompt, files, key) ==
    IF getAiClient(key).threw THEN [threw |-> TRUE, calls |-> 0]
    ELSE [threw |-> FALSE, calls |-> 1]

\* A generateDraft that swallows the error and returns "".
generateDraftResultSwallowing(resp) ==
    [threw |-> FALSE, value |-> IF resp.kind = "error" THEN <<>> ELSE resp.text]

\* generateDraft after its await: `return response.text || ""`, an error rethrown.
generateDraftResult(resp) ==
    IF resp.kind = "error" THEN [threw |-> TRUE, value |-> <<>>]
    ELSE [threw |-> FALSE, value |-> resp.text]

\* A prompt that carries the whole Document.
refinePromptUncut(selectedText, instruction, fullContext) ==
    [context |-> fullContext, selection |-> selectedText, instruction |-> instruction]

\* The variable parts of refineSelection's prompt: the Document excerpt
\* `fullContext.slice(0, 1000)`, the selection and the instruction.
refinePrompt(selectedText, instruction, fullContext) ==
    [context |-> slice0(fullContext, CONTEXT_CAP),
     selection |-> selectedText,
     instruction |-> instruction]

\* refineSelection up to its await: the client, then the prompt, then the call.
refineSelectionCall(selectedText, instruction, fullContext, key) ==
    IF getAiClient(key).threw THEN [threw |-> TRUE, calls |-> 0, prompt |-> None]
    ELSE [threw |-> FALSE, calls |-> 1,
          prompt |-> Some(refinePrompt(selectedText, instruction, fullContext))]

\* refineSelection after its await: `return response.text?.trim() || selectedText`,
\* an error rethrown.
refineSelectionResult(selectedText, resp) ==
    IF resp.kind = "error" THEN [threw |-> TRUE, value |-> <<>>]
    ELSE IF trim(resp.text) = <<>> THEN [threw |-> FALSE, value |-> selectedText]
    ELSE [threw |-> FALSE, value |-> trim(resp.text)]

\* A scanForImprovements that builds the client before it looks at the text.
scanForImprovementsCallClientFirst(text, key) ==
    IF getAiClient(key).threw THEN [threw |-> TRUE, calls |-> 0, done |-> TRUE]
    ELSE IF Len(text) < MIN_SCAN_LENGTH THEN [threw |-> FALSE, calls |-> 0, done |-> TRUE]
    ELSE [threw |-> FALSE, calls |-> 1, done |-> FALSE]

\* scanForImprovements up to its await: a short text returns [] before the client
\* is built.
scanForImprovementsCall(text, key) ==
    IF Len(text) < MIN_SCAN_LENGTH THEN [threw |-> FALSE, calls |-> 0, done |-> TRUE]
    ELSE IF getAiClient(key).threw THEN [threw |-> TRUE, calls |-> 0, done |-> TRUE]
    ELSE [threw |-> FALSE, calls |-> 1, done |-> FALSE]

\* scanForImprovements after its await: JSON.parse(response.text || "[]"); a failed
\* call or a text that does not parse is caught and gives [].  A response that
\* parses carries the parsed value in `json`.
scanForImprovementsResult(resp) ==
    IF resp.kind = "json" THEN resp.json ELSE <<>>

\* ------------------------------------------------------------------- data
\* "# Untitled Draft\n\nStart writing here..."
Placeholder ==
    <<
       "#", " ", "U", "n", "t", "i", "t", "l", "e", "d", " ", "D", "r", "a",
       "f", "t", "\n", "\n", "S", "t", "a", "r", "t", " ", "w", "r", "i",
       "t", "i", "n", "g", " ", "h", "e", "r", "e", ".", ".", "." >>

\* A document just long enough for the Analyze button and the scan.
LongDoc == [i \in 1..MIN_SCAN_LENGTH |-> "a"]

\* What the user types or pastes into the Markdown editor.
Docs == {<<>>, <<" ", "a">>, LongDoc}

\* The spans [start, end) the user selects in the Markdown editor.
Spans == {<<0, 0>>, <<1, 2>>}

\* What the user types as draft instructions, and how many files are attached.
Prompts == {<<>>, <<" ">>, <<"a">>}
FileCounts == {0, 1}

\* The instruction typed into the floating menu, and the menu's presets.
Instructions == {<<>>, <<" ">>, <<"a">>}
Presets == {<<"Make it punchier">>, <<"Expand this">>, <<"Fix grammar">>,
            <<"Change tone to professional">>}

Suggestion(id, orig, sugg) ==
    [id |-> id, originalText |-> orig, suggestedText |-> sugg, reason |-> "r"]

\* What the backend answers.
DraftResponses ==
    {ErrorResponse, EmptyResponse, Response("text", <<"a", " ">>), Response("text", LongDoc)}
RefineResponses ==
    {ErrorResponse, EmptyResponse, Response("text", <<" ">>), Response("text", <<" ", "a">>)}
Batches == {<<>>, <<Suggestion("1", <<"a">>, <<>>)>>}
ScanResponses ==
    {ErrorResponse, EmptyResponse, Response("malformed", <<>>)}
    \cup {[kind |-> "json", text |-> <<>>, json |-> b] : b \in Batches}

\* ------------------------------------------------------------------ state
VARIABLES
    content,          \* App: the Document (Markdown)
    isGenerating,     \* App: the request state shown to the user
    selection,        \* App: None or Some([start, end, text])
    menuPosition,     \* App: None or Some(point), the floating menu's anchor
    suggestions,      \* App: the suggestion batch
    showSuggestions,  \* App: the suggestions panel is open
    isRichTextMode,   \* App: rich-text view (TRUE) or Markdown textarea
    highlightedText,  \* App: None or Some(text)
    isWelcome,        \* App: the welcome screen is shown
    apiKey,           \* process.env.API_KEY is set
    inflight,         \* handlers suspended at their await, each with the closure
                      \* of the render that started it
    dom,              \* RichTextEditor: divRef.current.innerHTML
    isFocused,        \* RichTextEditor: isFocused.current
    out               \* what the last step did outside the state: the handler
                      \* that ran, how it ended, the backend calls it issued
                      \* and what it showed (alert) or logged (console.error)

vars == <<content, isGenerating, selection, menuPosition, suggestions, showSuggestions,
          isRichTextMode, highlightedText, isWelcome, apiKey, inflight, dom, isFocused, out>>

Point == [x |-> 0, y |-> 0]

Out(op, outcome, calls, signal) ==
    [op |-> op, outcome |-> outcome, calls |-> calls, signal |-> signal]
NoOut == Out("none", "none", 0, "none")

\* The closure of a suspended handler: what it reads after its await.
DraftClosure == [op |-> "draft", isWelcome |-> isWelcome]
RefineClosure == [op |-> "refine", content |-> content, selection |-> selection]
ScanClosure == [op |-> "scan"]

\* A suspended handleRefineSelection: its closure and the prompt of its call.
RefinePending(prompt) ==
    [op |-> RefineClosure.op, content |-> RefineClosure.content,
     selection |-> RefineClosure.selection, prompt |-> prompt]

RemoveAt(q, i) == SubSeq(q, 1, i - 1) \o SubSeq(q, i + 1, Len(q))

Init ==
    /\ content = <<>>
    /\ isGenerating = FALSE
    /\ selection = None
    /\ menuPosition = None
    /\ suggestions = <<>>
    /\ showSuggestions = FALSE
    /\ isRichTextMode = TRUE
    /\ highlightedText = None
    /\ isWelcome = TRUE
    /\ apiKey \in BOOLEAN
    /\ inflight = <<>>
    /\ dom = <<>>
    /\ isFocused = FALSE
    /\ out = NoOut

\* The RichTextEditor is mounted in the editing view in rich-text mode.
mounted(welcome, rich) == ~welcome /\ rich

\* RichTextEditor's sync effect, run after the render that follows an event: on
\* mount and whenever content or highlightText changed, and only while the editor
\* is not focused, the view is rewritten from the Document.  `view` is the view
\* as the event left it.
SyncEffect(view) ==
    dom' = IF ~mounted(isWelcome', isRichTextMode') THEN <<>>
           ELSE IF /\ \/ ~mounted(isWelcome, isRichTextMode)
                      \/ content' # content
                      \/ highlightedText' # highlightedText
                   /\ ~isFocused'
                THEN renderHtml(content', highlightedText')
                ELSE view

\* ------------------------------------------------------- UI affordances
\* A click outside the rich-text editor takes the focus from it first (RichBlur).
Clickable == ~isFocused

\* WelcomeScreen's button: disabled={isGenerating}.
WelcomeDisabled == isGenerating

\* Sidebar's button: disabled={(!prompt.trim() && files.length === 0) || isGenerating}.
SidebarDisabled(prompt, files) == (trim(prompt) = <<>> /\ files = 0) \/ isGenerating

\* FloatingMenu: rendered in Markdown mode at an anchor; its input, submit button
\* and presets are disabled while isProcessing (= isGenerating).
MenuShown == ~isWelcome /\ ~isRichTextMode /\ menuPosition # None
MenuDisabled == isGenerating

\* An Analyze button that looks only at the length of the Document, and so stays
\* enabled while a call is pending.
AnalyzeDisabledByLengthOnly == Len(content) < MIN_SCAN_LENGTH

\* The Analyze button: disabled={isGenerating || content.length < 50}.
AnalyzeDisabled == isGenerating \/ Len(content) < MIN_SCAN_LENGTH

\* ---------------------------------------------------- handleGenerateDraft
\* A handleGenerateDraft that writes the placeholder on every blank request.
handleGenerateDraftAlwaysPlaceholder(prompt, files) ==
    IF trim(prompt) = <<>> /\ files = 0
    THEN /\ isWelcome' = FALSE
         /\ content' = Placeholder
         /\ isGenerating' = FALSE
         /\ out' = Out("draft", "blank", 0, "none")
         /\ UNCHANGED inflight
    ELSE LET call == generateDraftCall(prompt, files, apiKey)
         IN  IF call.threw
             THEN /\ isGenerating' = FALSE
                  /\ out' = Out("draft", "error", call.calls, "alert")
                  /\ UNCHANGED <<isWelcome, content, inflight>>
             ELSE /\ isGenerating' = TRUE
                  /\ inflight' = Append(inflight, DraftClosure)
                  /\ out' = Out("draft", "pending", call.calls, "none")
                  /\ UNCHANGED <<isWelcome, content>>

\* Up to the await: a blank request (no instructions after trim(), no files) only
\* leaves the welcome screen; otherwise generateDraft is called, and a call that
\* throws before it is sent (no API key) is caught at once.
handleGenerateDraft(prompt, files) ==
    IF trim(prompt) = <<>> /\ files = 0
    THEN /\ isWelcome' = IF isWelcome THEN FALSE ELSE isWelcome
         /\ content' = IF isWelcome THEN Placeholder ELSE content
         /\ isGenerating' = FALSE
         /\ out' = Out("draft", "blank", 0, "none")
         /\ UNCHANGED inflight
    ELSE LET call == generateDraftCall(prompt, files, apiKey)
         IN  IF call.threw
             THEN /\ isGenerating' = FALSE
                  /\ out' = Out("draft", "error", call.calls, "alert")
                  /\ UNCHANGED <<isWelcome, content, inflight>>
             ELSE /\ isGenerating' = TRUE
                  /\ inflight' = Append(inflight, DraftClosure)
                  /\ out' = Out("draft", "pending", call.calls, "none")
                  /\ UNCHANGED <<isWelcome, content>>

\* WelcomeScreen.handleSubmit: onGenerate(prompt, files).
WelcomeSubmit(prompt, files) ==
    /\ isWelcome
    /\ ~WelcomeDisabled
    /\ Len(inflight) < MaxInflight
    /\ handleGenerateDraft(prompt, files)
    /\ UNCHANGED <<selection, menuPosition, suggestions, showSuggestions, isRichTextMode,
                   highlightedText, apiKey, isFocused>>
    /\ SyncEffect(dom)

\* Sidebar.handleSubmit: returns when the request is blank, else onGenerate.
SidebarSubmit(prompt, files) ==
    /\ ~isWelcome
    /\ Clickable
    /\ ~SidebarDisabled(prompt, files)
    /\ ~(trim(prompt) = <<>> /\ files = 0)
    /\ Len(inflight) < MaxInflight
    /\ handleGenerateDraft(prompt, files)
    /\ UNCHANGED <<selection, menuPosition, suggestions, showSuggestions, isRichTextMode,
                   highlightedText, apiKey, isFocused>>
    /\ SyncEffect(dom)

\* A handleGenerateDraft that goes back to the welcome screen when the draft
\* fails.
GenerateDraftResumeBackToWelcome(i, resp) ==
    /\ i \in 1..Len(inflight)
    /\ inflight[i].op = "draft"
    /\ LET c == inflight[i]
           r == generateDraftResult(resp)
       IN  IF r.threw
           THEN /\ out' = Out("draft", "error", 0, "alert")
                /\ isWelcome' = TRUE
                /\ UNCHANGED <<content, suggestions, highlightedText>>
           ELSE /\ content' = r.value
                /\ isWelcome' = IF c.isWelcome THEN FALSE ELSE isWelcome
                /\ suggestions' = <<>>
                /\ highlightedText' = None
                /\ out' = Out("draft", "ok", 0, "none")
    /\ isGenerating' = FALSE
    /\ inflight' = RemoveAt(inflight, i)
    /\ UNCHANGED <<selection, menuPosition, showSuggestions, isRichTextMode, apiKey,
                   isFocused>>
    /\ SyncEffect(dom)

\* A handleGenerateDraft without its finally block: a failed call leaves
\* isGenerating as it is.
GenerateDraftResumeNoFinally(i, resp) ==
    /\ i \in 1..Len(inflight)
    /\ inflight[i].op = "draft"
    /\ LET c == inflight[i]
           r == generateDraftResult(resp)
       IN  IF r.threw
           THEN /\ out' = Out("draft", "error", 0, "alert")
                /\ UNCHANGED <<content, isWelcome, suggestions, highlightedText,
                               isGenerating>>
           ELSE /\ content' = r.value
                /\ isWelcome' = IF c.isWelcome THEN FALSE ELSE isWelcome
                /\ suggestions' = <<>>
                /\ highlightedText' = None
                /\ isGenerating' = FALSE
                /\ out' = Out("draft", "ok", 0, "none")
    /\ inflight' = RemoveAt(inflight, i)
    /\ UNCHANGED <<selection, menuPosition, showSuggestions, isRichTextMode, apiKey,
                   isFocused>>
    /\ SyncEffect(dom)

\* A handleGenerateDraft that keeps the suggestions and the highlight it finds.
GenerateDraftResumeKeepingSuggestions(i, resp) ==
    /\ i \in 1..Len(inflight)
    /\ inflight[i].op = "draft"
    /\ LET c == inflight[i]
           r == generateDraftResult(resp)
       IN  IF r.threw
           THEN /\ out' = Out("draft", "error", 0, "alert")
                /\ UNCHANGED <<content, isWelcome>>
           ELSE /\ content' = r.value
                /\ isWelcome' = IF c.isWelcome THEN FALSE ELSE isWelcome
                /\ out' = Out("draft", "ok", 0, "none")
    /\ isGenerating' = FALSE
    /\ inflight' = RemoveAt(inflight, i)
    /\ UNCHANGED <<selection, menuPosition, showSuggestions, isRichTextMode, apiKey,
                   isFocused, suggestions, highlightedText>>
    /\ SyncEffect(dom)

\* handleGenerateDraft after the await, with the closure c of the render that
\* started it: the draft replaces the Document, the welcome screen is left, the
\* suggestions and the highlight are cleared; an error is caught and alerted.
GenerateDraftResume(i, resp) ==
    /\ i \in 1..Len(inflight)
    /\ inflight[i].op = "draft"
    /\ LET c == inflight[i]
           r == generateDraftResult(resp)
       IN  IF r.threw
           THEN /\ out' = Out("draft", "error", 0, "alert")
                /\ UNCHANGED <<content, isWelcome, suggestions, highlightedText>>
           ELSE /\ content' = r.value
                /\ isWelcome' = IF c.isWelcome THEN FALSE ELSE isWelcome
                /\ suggestions' = <<>>
                /\ highlightedText' = None
                /\ out' = Out("draft", "ok", 0, "none")
    /\ isGenerating' = FALSE
    /\ inflight' = RemoveAt(inflight, i)
    /\ UNCHANGED <<selection, menuPosition, showSuggestions, isRichTextMode, apiKey,
                   isFocused>>
    /\ SyncEffect(dom)

\* -------------------------------------------------- handleRefineSelection
\* Up to the await: nothing without a selection; otherwise refineSelection is
\* called with the selection's text, the instruction and the Document, and a call
\* that throws before it is sent is caught (console.error) at once.  The prompt
\* of the call in flight is kept with the suspended handler.
handleRefineSelection(instruction) ==
    IF selection = None
    THEN out' = Out("refine", "skipped", 0, "none") /\ UNCHANGED <<isGenerating, inflight>>
    ELSE LET call == refineSelectionCall(selection[1].text, instruction, content, apiKey)
         IN  IF call.threw
             THEN /\ isGenerating' = FALSE
                  /\ out' = Out("refine", "error", call.calls, "console")
                  /\ UNCHANGED inflight
             ELSE /\ isGenerating' = TRUE
                  /\ inflight' = Append(inflight, RefinePending(call.prompt[1]))
                  /\ out' = Out("refine", "pending", call.calls, "none")

\* FloatingMenu.handleSubmit: onSubmit(instruction) when instruction.trim() is not
\* empty.
FloatingSubmit(instruction) ==
    /\ MenuShown
    /\ ~MenuDisabled
    /\ trim(instruction) # <<>>
    /\ Len(inflight) < MaxInflight
    /\ handleRefineSelection(instruction)
    /\ UNCHANGED <<content, selection, menuPosition, suggestions, showSuggestions,
                   isRichTextMode, highlightedText, isWelcome, apiKey, isFocused>>
    /\ SyncEffect(dom)

\* A preset button of the FloatingMenu: onSubmit(preset).
FloatingPreset(preset) ==
    /\ MenuShown
    /\ ~MenuDisabled
    /\ Len(inflight) < MaxInflight
    /\ handleRefineSelection(preset)
    /\ UNCHANGED <<content, selection, menuPosition, suggestions, showSuggestions,
                   isRichTextMode, highlightedText, isWelcome, apiKey, isFocused>>
    /\ SyncEffect(dom)

\* A splice that inserts the refined text at the selection's start and keeps the
\* selected text after it.
spliceRefinedInserting(c, refinedText) ==
    substring(c.content, 0, c.selection[1].start)
    \o refinedText
    \o substring(c.content, c.selection[1].start, Len(c.content))

\* The Document handleRefineSelection writes: the closure's content with the
\* closure's selection span replaced by the refined text.
spliceRefined(c, refinedText) ==
    substring(c.content, 0, c.selection[1].start)
    \o refinedText
    \o substring(c.content, c.selection[1].end, Len(c.content))

\* A handleRefineSelection that replaces the selection by what it got even when
\* the call failed (nothing).
RefineResumeSplicingOnError(i, resp) ==
    /\ i \in 1..Len(inflight)
    /\ inflight[i].op = "refine"
    /\ LET c == inflight[i]
           r == refineSelectionResult(c.selection[1].text, resp)
       IN  /\ content' = spliceRefined(c, r.value)
           /\ selection' = None
           /\ menuPosition' = None
           /\ out' = IF r.threw THEN Out("refine", "error", 0, "console")
                     ELSE Out("refine", "ok", 0, "none")
    /\ isGenerating' = FALSE
    /\ inflight' = RemoveAt(inflight, i)
    /\ UNCHANGED <<suggestions, showSuggestions, isRichTextMode, highlightedText,
                   isWelcome, apiKey, isFocused>>
    /\ SyncEffect(dom)

\* handleRefineSelection after the await, with the closure c of the render that
\* started it.
RefineResume(i, resp) ==
    /\ i \in 1..Len(inflight)
    /\ inflight[i].op = "refine"
    /\ LET c == inflight[i]
           r == refineSelectionResult(c.selection[1].text, resp)
       IN  IF r.threw
           THEN /\ out' = Out("refine", "error", 0, "console")
                /\ UNCHANGED <<content, selection, menuPosition>>
           ELSE /\ content' = spliceRefined(c, r.value)
                /\ selection' = None
                /\ menuPosition' = None
                /\ out' = Out("refine", "ok", 0, "none")
    /\ isGenerating' = FALSE
    /\ inflight' = RemoveAt(inflight, i)
    /\ UNCHANGED <<suggestions, showSuggestions, isRichTextMode, highlightedText,
                   isWelcome, apiKey, isFocused>>
    /\ SyncEffect(dom)

\* ---------------------------------------------- handleScanForImprovements
\* Up to the await: a short Document gives [] without a call; a call that throws
\* before it is sent is caught (console.error) at once.
handleScanForImprovements ==
    LET call == scanForImprovementsCall(content, apiKey)
    IN  IF call.threw
        THEN /\ isGenerating' = FALSE
             /\ out' = Out("scan", "error", call.calls, "console")
             /\ UNCHANGED <<suggestions, showSuggestions, highlightedText, inflight>>
        ELSE IF call.done
        THEN /\ suggestions' = <<>>
             /\ showSuggestions' = TRUE
             /\ highlightedText' = None
             /\ isGenerating' = FALSE
             /\ out' = Out("scan", "ok", call.calls, "none")
             /\ UNCHANGED inflight
        ELSE /\ isGenerating' = TRUE
             /\ inflight' = Append(inflight, ScanClosure)
             /\ out' = Out("scan", "pending", call.calls, "none")
             /\ UNCHANGED <<suggestions, showSuggestions, highlightedText>>

\* The Analyze button.
Analyze ==
    /\ ~isWelcome
    /\ Clickable
    /\ ~AnalyzeDisabled
    /\ Len(inflight) < MaxInflight
    /\ handleScanForImprovements
    /\ UNCHANGED <<content, selection, menuPosition, isRichTextMode, isWelcome, apiKey,
                   isFocused>>
    /\ SyncEffect(dom)

\* A handleScanForImprovements that adds the results to the batch it has.
ScanResumeMerging(i, resp) ==
    /\ i \in 1..Len(inflight)
    /\ inflight[i].op = "scan"
    /\ suggestions' = suggestions \o scanForImprovementsResult(resp)
    /\ showSuggestions' = TRUE
    /\ highlightedText' = None
    /\ out' = Out("scan", "ok", 0,
                   IF resp.kind \in {"error", "malformed"} THEN "console" ELSE "none")
    /\ isGenerating' = FALSE
    /\ inflight' = RemoveAt(inflight, i)
    /\ UNCHANGED <<content, selection, menuPosition, isRichTextMode, isWelcome, apiKey,
                   isFocused>>
    /\ SyncEffect(dom)

\* handleScanForImprovements after the await: scanForImprovements never throws
\* here (it catches and returns []), so the results always replace the batch.
ScanResume(i, resp) ==
    /\ i \in 1..Len(inflight)
    /\ inflight[i].op = "scan"
    /\ suggestions' = scanForImprovementsResult(resp)
    /\ showSuggestions' = TRUE
    /\ highlightedText' = None
    /\ out' = Out("scan", "ok", 0,
                   IF resp.kind \in {"error", "malformed"} THEN "console" ELSE "none")
    /\ isGenerating' = FALSE
    /\ inflight' = RemoveAt(inflight, i)
    /\ UNCHANGED <<content, selection, menuPosition, isRichTextMode, isWelcome, apiKey,
                   isFocused>>
    /\ SyncEffect(dom)

\* ---------------------------------------------------------- suggestions
\* applySuggestion: the first occurrence of originalText is replaced by
\* String.prototype.replace, the suggestions with this id are dropped, and the
\* highlight is cleared when it is this suggestion's text.
applySuggestion(suggestion) ==
    /\ content' = replace(content, suggestion.originalText, suggestion.suggestedText)
    /\ suggestions' = SelectSeq(suggestions, LAMBDA x : x.id # suggestion.id)
    /\ highlightedText' = IF highlightedText = Some(suggestion.originalText)
                          THEN None ELSE highlightedText

\* The suggestions panel is rendered when showSuggestions && suggestions.length > 0.
PanelShown == ~isWelcome /\ showSuggestions /\ Len(suggestions) > 0

\* "Apply Change" on the card of suggestion k.
ApplySuggestion(k) ==
    /\ PanelShown
    /\ Clickable
    /\ k \in 1..Len(suggestions)
    /\ applySuggestion(suggestions[k])
    /\ out' = NoOut
    /\ UNCHANGED <<isGenerating, selection, menuPosition, showSuggestions, isRichTextMode,
                   isWelcome, apiKey, inflight, isFocused>>
    /\ SyncEffect(dom)

\* A click on the card of suggestion k: setHighlightedText(suggestion.originalText).
HighlightSuggestion(k) ==
    /\ PanelShown
    /\ Clickable
    /\ k \in 1..Len(suggestions)
    /\ highlightedText' = Some(suggestions[k].originalText)
    /\ out' = NoOut
    /\ UNCHANGED <<content, isGenerating, selection, menuPosition, suggestions,
                   showSuggestions, isRichTextMode, isWelcome, apiKey, inflight, isFocused>>
    /\ SyncEffect(dom)

\* The panel's close button and the "N Suggestions" button that reopens it.
ToggleSuggestions ==
    /\ ~isWelcome
    /\ Clickable
    /\ Len(suggestions) > 0
    /\ showSuggestions' = ~showSuggestions
    /\ out' = NoOut
    /\ UNCHANGED <<content, isGenerating, selection, menuPosition, suggestions,
                   isRichTextMode, highlightedText, isWelcome, apiKey, inflight, isFocused>>
    /\ SyncEffect(dom)

\* ------------------------------------------------------- Markdown editor
\* The textarea's onChange: setContent(e.target.value).
TypeMarkdown(value) ==
    /\ ~isWelcome
    /\ ~isRichTextMode
    /\ value # content
    /\ content' = value
    /\ out' = NoOut
    /\ UNCHANGED <<isGenerating, selection, menuPosition, suggestions, showSuggestions,
                   isRichTextMode, highlightedText, isWelcome, apiKey, inflight, isFocused>>
    /\ SyncEffect(dom)

\* A handleSelect that makes every non-blank span it sees the selection.
handleSelectActivating(start, end) ==
    LET text == substring(content, start, end)
    IN  IF Len(trim(text)) > 0
        THEN /\ selection' = Some([start |-> start, end |-> end, text |-> text])
             /\ menuPosition' = Some(Point)
        ELSE selection' = None /\ menuPosition' = None

\* handleSelect, with the textarea's selection [start, end): a selection whose
\* text is blank clears the selection state, any other leaves it alone.
handleSelect(start, end) ==
    LET text == substring(content, start, end)
    IN  IF Len(trim(text)) > 0
        THEN UNCHANGED <<selection, menuPosition>>
        ELSE selection' = None /\ menuPosition' = None

\* A handleMouseUp that records the selection and leaves the menu anchor alone.
handleMouseUpWithoutAnchor(start, end) ==
    IF start # end
    THEN /\ selection' = Some([start |-> start, end |-> end,
                               text |-> substring(content, start, end)])
         /\ UNCHANGED menuPosition
    ELSE selection' = None /\ menuPosition' = None

\* handleMouseUp's timer, with the textarea's selection [start, end) as it has
\* settled: a non-empty span becomes the selection, anchored at the pointer.
handleMouseUp(start, end) ==
    IF start # end
    THEN /\ selection' = Some([start |-> start, end |-> end,
                               text |-> substring(content, start, end)])
         /\ menuPosition' = Some(Point)
    ELSE selection' = None /\ menuPosition' = None

Select(start, end) ==
    /\ ~isWelcome
    /\ ~isRichTextMode
    /\ start <= end /\ end <= Len(content)
    /\ handleSelect(start, end)
    /\ out' = NoOut
    /\ UNCHANGED <<content, isGenerating, suggestions, showSuggestions, isRichTextMode,
                   highlightedText, isWelcome, apiKey, inflight, isFocused>>
    /\ SyncEffect(dom)

MouseUp(start, end) ==
    /\ ~isWelcome
    /\ ~isRichTextMode
    /\ start <= end /\ end <= Len(content)
    /\ handleMouseUp(start, end)
    /\ out' = NoOut
    /\ UNCHANGED <<content, isGenerating, suggestions, showSuggestions, isRichTextMode,
                   highlightedText, isWelcome, apiKey, inflight, isFocused>>
    /\ SyncEffect(dom)

\* FloatingMenu's close button: onClose.
FloatingClose ==
    /\ MenuShown
    /\ selection' = None
    /\ menuPosition' = None
    /\ out' = NoOut
    /\ UNCHANGED <<content, isGenerating, suggestions, showSuggestions, isRichTextMode,
                   highlightedText, isWelcome, apiKey, inflight, isFocused>>
    /\ SyncEffect(dom)

\* The view toggle: setIsRichTextMode(rich).
SetRichTextMode(rich) ==
    /\ ~isWelcome
    /\ Clickable
    /\ rich # isRichTextMode
    /\ isRichTextMode' = rich
    /\ out' = NoOut
    /\ UNCHANGED <<content, isGenerating, selection, menuPosition, suggestions,
                   showSuggestions, highlightedText, isWelcome, apiKey, inflight, isFocused>>
    /\ SyncEffect(dom)

\* ------------------------------------------------------ rich-text editor
\* handleInput: onChange(turndownService.turndown(divRef.current.innerHTML)).
handleInput(view) == content' = turndown(view)

\* onFocus.
RichFocus ==
    /\ mounted(isWelcome, isRichTextMode)
    /\ ~isFocused
    /\ isFocused' = TRUE
    /\ out' = NoOut
    /\ UNCHANGED <<content, isGenerating, selection, menuPosition, suggestions,
                   showSuggestions, isRichTextMode, highlightedText, isWelcome, apiKey,
                   inflight>>
    /\ SyncEffect(dom)

\* onInput: the user types a character into the focused view.
RichInput(c) ==
    /\ mounted(isWelcome, isRichTextMode)
    /\ isFocused
    /\ Len(htmlText(dom)) < MaxLen
    /\ handleInput(typeInto(dom, c))
    /\ out' = NoOut
    /\ UNCHANGED <<isGenerating, selection, menuPosition, suggestions, showSuggestions,
                   isRichTextMode, highlightedText, isWelcome, apiKey, inflight, isFocused>>
    /\ SyncEffect(typeInto(dom, c))

\* onBlur: isFocused.current = false, then handleInput.
RichBlur ==
    /\ mounted(isWelcome, isRichTextMode)
    /\ isFocused
    /\ isFocused' = FALSE
    /\ handleInput(dom)
    /\ out' = NoOut
    /\ UNCHANGED <<isGenerating, selection, menuPosition, suggestions, showSuggestions,
                   isRichTextMode, highlightedText, isWelcome, apiKey, inflight>>
    /\ SyncEffect(dom)

\* ------------------------------------------------------------ the system
Next ==
    \/ \E p \in Prompts, f \in FileCounts : WelcomeSubmit(p, f)
    \/ \E p \in Prompts, f \in FileCounts : SidebarSubmit(p, f)
    \/ \E i \in 1..Len(inflight), r \in DraftResponses : GenerateDraftResume(i, r)
    \/ \E t \in Instructions : FloatingSubmit(t)
    \/ \E t \in Presets : FloatingPreset(t)
    \/ \E i \in 1..Len(inflight), r \in RefineResponses : RefineResume(i, r)
    \/ Analyze
    \/ \E i \in 1..Len(inflight), r \in ScanResponses : ScanResume(i, r)
    \/ \E k \in 1..Len(suggestions) : ApplySuggestion(k)
    \/ \E k \in 1..Len(suggestions) : HighlightSuggestion(k)
    \/ ToggleSuggestions
    \/ \E d \in Docs : TypeMarkdown(d)
    \/ \E sp \in Spans : Select(sp[1], sp[2])
    \/ \E sp \in Spans : MouseUp(sp[1], sp[2])
    \/ FloatingClose
    \/ \E m \in BOOLEAN : SetRichTextMode(m)
    \/ RichFocus
    \/ \E c \in Chars : RichInput(c)
    \/ RichBlur

Spec == Init /\ [][Next]_vars

\* ------------------------------------------- the handler's own blank test
\* handleGenerateDraft tests for a blank request itself, whoever calls it.  The
\* Sidebar never passes one on (its button is disabled and its handleSubmit
\* returns), so in the editing view that branch is exercised by calling the
\* handler, as App hands it out (onGenerate), with a blank request; like every
\* control that calls a handler, the call is not made while a request is pending.
BlankPrompts == {p \in Prompts : trim(p) = <<>>}

GenerateBlankWhileEditing(prompt) ==
    /\ ~isWelcome
    /\ ~isGenerating
    /\ handleGenerateDraft(prompt, 0)
    /\ UNCHANGED <<selection, menuPosition, suggestions, showSuggestions, isRichTextMode,
                   highlightedText, apiKey, isFocused>>
    /\ SyncEffect(dom)

\* scanForImprovements tests the length of the text itself.  The Analyze button is
\* disabled on a short Document, so that branch is exercised by calling
\* handleScanForImprovements on one, while no request is pending.
ScanWhileShort ==
    /\ ~isWelcome
    /\ ~isGenerating
    /\ Len(content) < MIN_SCAN_LENGTH
    /\ handleScanForImprovements
    /\ UNCHANGED <<content, selection, menuPosition, isRichTextMode, isWelcome, apiKey,
                   isFocused>>
    /\ SyncEffect(dom)

NextHandlers ==
    \/ Next
    \/ \E p \in BlankPrompts : GenerateBlankWhileEditing(p)
    \/ ScanWhileShort

SpecHandlers == Init /\ [][NextHandlers]_vars

\* ------------------------------------------------ applySuggestion alone
\* applySuggestion on every small Document and suggestion over an alphabet with
\* the characters String.prototype.replace gives a meaning to.  The editor is in
\* such a state after a scan of a long Document whose text the user then
\* replaced in the Markdown editor.
ApplyChars == {"a", "$", "&"}

InitApply ==
    /\ content \in TextsUpTo(ApplyChars, MaxText + 1)
    /\ \E o \in TextsUpTo(ApplyChars, MaxText) \ {<<>>}, g \in TextsUpTo(ApplyChars, MaxText) :
           suggestions = <<Suggestion("1", o, g)>>
    /\ isGenerating = FALSE
    /\ selection = None
    /\ menuPosition = None
    /\ showSuggestions = TRUE
    /\ isRichTextMode = FALSE
    /\ highlightedText = None
    /\ isWelcome = FALSE
    /\ apiKey = TRUE
    /\ inflight = <<>>
    /\ dom = <<>>
    /\ isFocused = FALSE
    /\ out = NoOut

NextApply == \E k \in 1..Len(suggestions) : ApplySuggestion(k)

SpecApply == InitApply /\ [][NextApply]_vars

\* --------------------------------------------------- the suggestion store
\* The scan, the suggestions panel and applySuggestion on a Document of 50
\* characters "a" in the Markdown editor, with the batches a backend can answer:
\* suggestions that apply (A1, A2), one with the id of another (D1),
\* suggestions whose originalText is not in the Document (X3, X4), four
\* suggestions at once, and an element without originalText and suggestedText.
\* JSON.parse gives no value for a property the element lacks; read as a string
\* (String.prototype.replace) it is the text "undefined", here one token.
Undefined == <<"undefined">>

A1 == Suggestion("1", <<"a">>, <<"a">>)
A2 == Suggestion("2", <<"a">>, <<"a">>)
D1 == Suggestion("1", <<" ">>, <<"a">>)
X3 == Suggestion("3", <<" ">>, <<"a">>)
X4 == Suggestion("4", <<" ">>, <<>>)
NoTexts == Suggestion("5", Undefined, Undefined)

\* The Suggestion interface: id, originalText, suggestedText and reason are strings.
WellFormed(sg) ==
    /\ DOMAIN sg = {"id", "originalText", "suggestedText", "reason"}
    /\ sg.originalText # Undefined
    /\ sg.suggestedText # Undefined

StoreBatches ==
    {<<>>, <<A1, A2>>, <<A1, D1>>, <<X3, X4>>, <<A1, A2, X3, X4>>, <<NoTexts>>}

StoreResponses ==
    {ErrorResponse, EmptyResponse, Response("malformed", <<>>)}
    \cup {[kind |-> "json", text |-> <<>>, json |-> b] : b \in StoreBatches}

InitStore ==
    /\ content = LongDoc
    /\ isGenerating = FALSE
    /\ selection = None
    /\ menuPosition = None
    /\ suggestions = <<>>
    /\ showSuggestions = FALSE
    /\ isRichTextMode = FALSE
    /\ highlightedText = None
    /\ isWelcome = FALSE
    /\ apiKey \in BOOLEAN
    /\ inflight = <<>>
    /\ dom = <<>>
    /\ isFocused = FALSE
    /\ out = NoOut

NextStore ==
    \/ Analyze
    \/ \E i \in 1..Len(inflight), r \in StoreResponses : ScanResume(i, r)
    \/ \E k \in 1..Len(suggestions) : ApplySuggestion(k)
    \/ \E k \in 1..Len(suggestions) : HighlightSuggestion(k)
    \/ ToggleSuggestions

SpecStore == InitStore /\ [][NextStore]_vars

\* ============================================================== properties
\* A handler is suspended at its await exactly while its backend call is pending,
\* so Len(inflight) is the number of pending backend calls.

\* C1: at most one backend call (draft, refine or scan) is pending in any
\* reachable state, and while one is pending every control that starts a call
\* (Welcome generate, Sidebar generate, FloatingMenu submit and presets, Analyze)
\* is disabled.
C1_AtMostOnePending ==
    /\ Len(inflight) <= 1
    /\ Len(inflight) = 1 =>
          /\ WelcomeDisabled
          /\ \A p \in Prompts, f \in FileCounts : SidebarDisabled(p, f)
          /\ MenuDisabled
          /\ AnalyzeDisabled

\* A call is pending while the floating menu is open on a selection and the
\* Document is long enough for Analyze: every control is there to be tried.
C1_PendingWithControlsShown ==
    /\ Len(inflight) = 1
    /\ MenuShown
    /\ selection # None
    /\ Len(content) >= MIN_SCAN_LENGTH


\* C2 (as stated): a response that arrives after the Document was changed since
\* its request was issued modifies neither the Document nor the suggestion batch.
\* A refine request keeps the Document of the render that issued it, so the
\* Document has changed whenever it differs from that one.
C2_StaleResponseDiscarded ==
    [][\A i \in 1..Len(inflight) :
          ( /\ inflight[i].op = "refine"
            /\ inflight[i].content # content
            /\ inflight' = RemoveAt(inflight, i) )
          => (content' = content /\ suggestions' = suggestions)]_vars

\* C3 (as stated): every step that changes the Document leaves no selection.
C3_SelectionClearedOnMutation ==
    [][content' # content => selection' = None]_vars

\* C4: a step in which refineSelection fails, by a failed backend call or by a
\* missing credential, leaves the Document as it was, and so does the step that
\* issues the call.
C4_RefineFailureKeepsDocument ==
    [][ /\ \A i \in 1..Len(inflight) :
              RefineResume(i, ErrorResponse) => content' = content
        /\ \A t \in Instructions : FloatingSubmit(t) => content' = content
        /\ \A t \in Presets : FloatingPreset(t) => content' = content ]_vars

\* A refine call failed at the backend while the Document is the one the request
\* was issued on.
C4_RefineFailed ==
    /\ out = Out("refine", "error", 0, "console")
    /\ apiKey
    /\ selection # None
    /\ substring(content, selection[1].start, selection[1].end) = selection[1].text

\* C5 (as stated): for every pending refine request, a failed or empty backend
\* response gives the caller the selected text together with an error signal, so
\* its result differs from the result of a rewrite identical to the selection.
C5_FailureSignalled ==
    \A i \in 1..Len(inflight) :
        inflight[i].op = "refine" =>
            LET t == inflight[i].selection[1].text
            IN  \A r \in {ErrorResponse, EmptyResponse} :
                    /\ refineSelectionResult(t, r).threw
                    /\ refineSelectionResult(t, r) # refineSelectionResult(t, Response("text", t))

\* C6: once the welcome screen is left, no step brings it back.
C6_NoWayBackToWelcome ==
    [][~isWelcome => ~isWelcome']_vars

\* A draft failed in the editing view, with suggestions on display.
C6_FailedDraftWhileEditing ==
    /\ ~isWelcome
    /\ out = Out("draft", "error", 0, "alert")
    /\ suggestions # <<>>

\* C7 (as stated): a generate request with non-empty instructions or a non-empty
\* attachment list issues exactly one backend call.
C7_NonEmptyRequestOneCall ==
    [][\A p \in Prompts, f \in FileCounts :
          ((WelcomeSubmit(p, f) \/ SidebarSubmit(p, f)) /\ (p # <<>> \/ f > 0))
          => out'.calls = 1]_vars

\* C7 (amended): a generate request whose instructions are not blank (not empty
\* after trim()) or whose attachment list is not empty issues exactly one backend
\* call when the credential is configured and none when it is missing; a request
\* with blank instructions and no attachments issues none; and the step that
\* receives the response issues none (no retry).
C7_NonBlankRequestOneCall ==
    [][ /\ \A p \in Prompts, f \in FileCounts :
              (WelcomeSubmit(p, f) \/ SidebarSubmit(p, f))
              => out'.calls = IF (trim(p) # <<>> \/ f > 0) /\ apiKey THEN 1 ELSE 0
        /\ \A i \in 1..Len(inflight), r \in DraftResponses :
              GenerateDraftResume(i, r) => out'.calls = 0 ]_vars

\* A generate request has issued its one call and awaits the response.
C7_CallIssued ==
    /\ out = Out("draft", "pending", 1, "none")
    /\ Len(inflight) = 1
    /\ inflight[1].op = "draft"

\* C9: a failed draft generation changes nothing: the step that issues the call
\* (or fails for a missing credential) and the step that receives the failure
\* leave the Document, the suggestion batch and isWelcome as they were.
C9_FailedDraftChangesNothing ==
    [][ /\ \A i \in 1..Len(inflight) :
              GenerateDraftResume(i, ErrorResponse)
              => UNCHANGED <<content, suggestions, isWelcome>>
        /\ \A p \in Prompts, f \in FileCounts :
              ((WelcomeSubmit(p, f) \/ SidebarSubmit(p, f)) /\ ~(trim(p) = <<>> /\ f = 0))
              => UNCHANGED <<content, suggestions, isWelcome>> ]_vars

\* A draft requested from the welcome screen failed at the backend.
C9_FailedDraftOnWelcome ==
    /\ out = Out("draft", "error", 0, "alert")
    /\ apiKey
    /\ isWelcome


\* C8: a generate request with blank instructions and no attachments issues no
\* backend call and suspends no handler; on the welcome screen it leaves the
\* welcome screen and sets the Document to the placeholder, and in the editing
\* view it leaves the Document as it is (and the Sidebar's control is disabled
\* for it).
C8_BlankRequest ==
    [][ /\ \A p \in BlankPrompts : SidebarDisabled(p, 0)
        /\ \A p \in BlankPrompts :
              (WelcomeSubmit(p, 0) \/ GenerateBlankWhileEditing(p))
              => /\ out'.calls = 0
                 /\ inflight' = inflight
                 /\ ~isWelcome'
                 /\ content' = IF isWelcome THEN Placeholder ELSE content ]_vars

\* A blank request was made in the editing view on a Document of the user's.
C8_BlankWhileEditing ==
    /\ out = Out("draft", "blank", 0, "none")
    /\ ~isWelcome
    /\ content \notin {<<>>, Placeholder}

\* C10 (as stated): applying a suggestion whose originalText occurs in the
\* Document d = p + originalText + s, with p the text before the leftmost
\* occurrence, gives p + suggestedText + s, suggestedText taken literally.
C10_LeftmostReplacedLiterally ==
    [][\A k \in 1..Len(suggestions) :
          LET o == suggestions[k].originalText
              g == suggestions[k].suggestedText
              pos == indexOf(content, o)
          IN  (ApplySuggestion(k) /\ pos # -1)
              => content' = SubSeq(content, 1, pos) \o g
                            \o SubSeq(content, pos + Len(o) + 1, Len(content))]_vars


\* C11: applying a suggestion whose originalText does not occur in the Document
\* leaves the Document unchanged and leaves no suggestion with its id in the
\* store.
C11_AbsentTextIsNoOp ==
    [][\A k \in 1..Len(suggestions) :
          (ApplySuggestion(k) /\ indexOf(content, suggestions[k].originalText) = -1)
          => /\ content' = content
             /\ \A j \in 1..Len(suggestions') : suggestions'[j].id # suggestions[k].id
             /\ Len(suggestions') < Len(suggestions)]_vars

\* X3, whose originalText is not in the Document, was applied: of its batch
\* <<X3, X4>> only X4 is left.
C11_AbsentApplied ==
    /\ suggestions = <<X4>>
    /\ content = LongDoc


\* C12 (as stated): applying a suggestion removes exactly that suggestion from
\* the store; every other suggestion of the batch remains, in its place.
C12_OnlyAppliedRemoved ==
    [][\A k \in 1..Len(suggestions) :
          ApplySuggestion(k) => suggestions' = RemoveAt(suggestions, k)]_vars

\* C13: a scan of a Document shorter than 50 characters gives the empty list
\* (which the controller stores), issues no backend call, suspends no handler
\* and reports no error, with or without a credential.
C13_ShortScanNoCall ==
    [][ScanWhileShort
          => /\ out' = Out("scan", "ok", 0, "none")
             /\ suggestions' = <<>>
             /\ inflight' = inflight]_vars

\* A short, non-empty Document was scanned without a credential.
C13_ShortScannedWithoutKey ==
    /\ out = Out("scan", "ok", 0, "none")
    /\ ~apiKey
    /\ content # <<>>
    /\ Len(content) < MIN_SCAN_LENGTH


\* C14 (as stated, the credential configured): a scan of a Document of at least
\* 50 characters issues exactly one backend call, none when the response
\* arrives, and the batch the controller stores has at most 3 suggestions,
\* whatever the backend answers.
C14_OneCallAtMostThree ==
    [][ /\ (Analyze /\ apiKey) => out'.calls = 1
        /\ \A i \in 1..Len(inflight), r \in StoreResponses :
              ScanResume(i, r)
              => (out'.calls = 0 /\ Len(suggestions') <= MAX_SUGGESTIONS) ]_vars

\* C15 (as stated): every element of the suggestion batch is a well-formed
\* Suggestion, whatever a scan's backend output was.
C15_StoredSuggestionsWellFormed ==
    \A j \in 1..Len(suggestions) : WellFormed(suggestions[j])


\* C16: when a scan completes, the store holds exactly what that scan returned,
\* the parsed array of the response or nothing when the call failed or its
\* output did not parse, and nothing of the batch it held before.
C16_ScanReplacesBatch ==
    [][\A i \in 1..Len(inflight), r \in StoreResponses :
          ScanResume(i, r)
          => suggestions' = IF r.kind = "json" THEN r.json ELSE <<>>]_vars

\* A scan is pending while the store holds the batch of an earlier scan.
C16_ScanPendingOverBatch ==
    /\ Len(inflight) = 1
    /\ inflight[1].op = "scan"
    /\ suggestions = <<A1, A2>>


\* C17 (as stated): every failure of a generative call, by a failed backend call
\* or by a missing credential, in a draft, a refine or a scan, ends in a
\* notification the user sees (an alert).
C17_FailureNotifiesUser ==
    [][ /\ \A i \in 1..Len(inflight) :
              ( \/ GenerateDraftResume(i, ErrorResponse)
                \/ RefineResume(i, ErrorResponse)
                \/ ScanResume(i, ErrorResponse) )
              => out'.signal = "alert"
        /\ ( /\ ~apiKey
             /\ \/ \E p \in Prompts, f \in FileCounts :
                      /\ WelcomeSubmit(p, f) \/ SidebarSubmit(p, f)
                      /\ ~(trim(p) = <<>> /\ f = 0)
                \/ \E t \in Instructions : FloatingSubmit(t)
                \/ \E t \in Presets : FloatingPreset(t)
                \/ Analyze )
           => out'.signal = "alert" ]_vars

\* C18: without a credential no step issues a backend call or suspends a handler
\* on one, and a draft, refine or scan that would issue one ends with an error
\* at once.
C18_NoCallWithoutKey ==
    [][~apiKey
       => /\ out'.calls = 0
          /\ inflight' = <<>>
          /\ ( \/ \E p \in Prompts, f \in FileCounts :
                     /\ WelcomeSubmit(p, f) \/ SidebarSubmit(p, f)
                     /\ ~(trim(p) = <<>> /\ f = 0)
               \/ \E t \in Instructions : FloatingSubmit(t)
               \/ \E t \in Presets : FloatingPreset(t)
               \/ Analyze )
             => out'.outcome = "error" ]_vars

\* Without a credential, Analyze on a long Document has failed before any call.
C18_ScanBlockedWithoutKey ==
    /\ ~apiKey
    /\ out = Out("scan", "error", 0, "console")
    /\ Len(content) >= MIN_SCAN_LENGTH


\* C19 (as stated): a Document value the controller has just written (a draft or
\* a refine result) is not overwritten by the rich-text editor's blur with markup
\* converted from the view of an older Document: after the blur the Document is
\* that value, or the conversion of the view rendered from it.
C19_ControllerWriteSurvivesBlur ==
    [][(RichBlur /\ out.op \in {"draft", "refine"} /\ out.outcome = "ok")
       => content' \in {content, turndown(renderHtml(content, highlightedText))}]_vars

\* C20 (as stated): the view the rich-text editor's input and blur handlers
\* convert to the Document's markup contains no highlight marker span.
C20_NoHighlightInConvertedView ==
    [][(RichBlur \/ \E c \in Chars : RichInput(c)) => ~hasHighlightSpan(dom)]_vars


\* C21: the selection is set (from none, or to another span) only by a step of
\* handleMouseUp, never by a select event; and an empty span seen by either
\* handler leaves no selection and no menu anchor.
C21_ActiveOnlyOnMouseUp ==
    [][ /\ (selection' # None /\ selection' # selection)
           => \E sp \in Spans : MouseUp(sp[1], sp[2]) /\ sp[1] # sp[2]
        /\ \A sp \in Spans :
              Select(sp[1], sp[2]) => (selection' = None \/ selection' = selection)
        /\ \A sp \in Spans :
              ((Select(sp[1], sp[2]) \/ MouseUp(sp[1], sp[2])) /\ sp[1] = sp[2])
              => (selection' = None /\ menuPosition' = None) ]_vars

\* A span is selected in the Markdown editor while nothing is pending.
C21_SpanSelected ==
    /\ selection # None
    /\ selection[1].start < selection[1].end
    /\ ~isGenerating
    /\ ~isRichTextMode

\* C22: whenever the panel presents a suggestion and nothing is pending, some
\* operation of the program removes the suggestions with that id from the store
\* and leaves the Document as it is.
C22_DismissAvailable ==
    (PanelShown /\ Clickable /\ inflight = <<>>)
    => \A k \in 1..Len(suggestions) :
          ENABLED ( /\ content' = content
                    /\ suggestions' = SelectSeq(suggestions,
                                         LAMBDA x : x.id # suggestions[k].id)
                    /\ Next )

\* ------------------------------------------- refining a long Document
\* Documents around refineSelection's cap: CONTEXT_CAP - 1, CONTEXT_CAP and
\* CONTEXT_CAP + 1 characters, no two neighbouring windows of them alike.
CapDoc(n) == [i \in 1..n |-> IF i % 3 = 0 THEN " " ELSE "a"]
CapDocs == {CapDoc(CONTEXT_CAP - 1), CapDoc(CONTEXT_CAP), CapDoc(CONTEXT_CAP + 1)}

\* The spans selected in them: none, one character, and the whole of the longest.
CapSpans == Spans \cup {<<0, CONTEXT_CAP + 1>>}

\* The editing view over such a Document, Markdown mode.
InitContext ==
    /\ content \in CapDocs
    /\ isGenerating = FALSE
    /\ selection = None
    /\ menuPosition = None
    /\ suggestions = <<>>
    /\ showSuggestions = FALSE
    /\ isRichTextMode = FALSE
    /\ highlightedText = None
    /\ isWelcome = FALSE
    /\ apiKey \in BOOLEAN
    /\ inflight = <<>>
    /\ dom = <<>>
    /\ isFocused = FALSE
    /\ out = NoOut

NextContext ==
    \/ \E d \in CapDocs : TypeMarkdown(d)
    \/ \E sp \in CapSpans : Select(sp[1], sp[2])
    \/ \E sp \in CapSpans : MouseUp(sp[1], sp[2])
    \/ FloatingClose
    \/ \E t \in Instructions : FloatingSubmit(t)
    \/ \E t \in Presets : FloatingPreset(t)
    \/ \E i \in 1..Len(inflight), r \in RefineResponses : RefineResume(i, r)

SpecContext == InitContext /\ [][NextContext]_vars

\* C23: the prompt of every refine call that is sent carries the Document's
\* prefix of length min(length, 1000) as its excerpt, and the selection's text
\* and the instruction as they were given, whatever their length.
C23_ContextCapped ==
    [][ LET sent(t) ==
              LET prompt == inflight'[Len(inflight')].prompt
              IN  /\ out'.calls = 1
                  /\ Len(prompt.context) <= CONTEXT_CAP
                  /\ prompt.context = SubSeq(content, 1, Min(Len(content), CONTEXT_CAP))
                  /\ prompt.selection = selection[1].text
                  /\ prompt.instruction = t
        IN  /\ \A t \in Instructions : (FloatingSubmit(t) /\ apiKey) => sent(t)
            /\ \A t \in Presets : (FloatingPreset(t) /\ apiKey) => sent(t) ]_vars

\* A refine call is in flight for a Document and a selection longer than the cap.
C23_LongDocumentSent ==
    \E i \in 1..Len(inflight) :
        /\ inflight[i].op = "refine"
        /\ Len(inflight[i].content) > CONTEXT_CAP
        /\ Len(inflight[i].prompt.context) = CONTEXT_CAP
        /\ Len(inflight[i].prompt.selection) > CONTEXT_CAP

\* ------------------------------------------ the rich-text round trip
\* Documents of headings, paragraphs and unordered lists: one block, or two
\* separated by a blank line.
RoundTripBlocks ==
    { <<"#", " ", "a">>, <<"a">>, <<"a", " ", "a">>,
      <<"-", " ", "a">>, <<"*", " ", "a">>, <<"-", " ", "a", "\n", "-", " ", "a">> }
RoundTripDocs ==
    RoundTripBlocks \cup {b \o <<"\n", "\n">> \o c : b, c \in RoundTripBlocks}

\* The editing view over such a Document, shown in the rich-text editor.
InitRoundTrip ==
    /\ content \in RoundTripDocs
    /\ isGenerating = FALSE
    /\ selection = None
    /\ menuPosition = None
    /\ suggestions = <<>>
    /\ showSuggestions = FALSE
    /\ isRichTextMode = TRUE
    /\ highlightedText = None
    /\ isWelcome = FALSE
    /\ apiKey \in BOOLEAN
    /\ inflight = <<>>
    /\ dom = renderHtml(content, highlightedText)
    /\ isFocused = FALSE
    /\ out = NoOut

NextRoundTrip ==
    \/ RichFocus
    \/ RichBlur
    \/ \E m \in BOOLEAN : SetRichTextMode(m)

SpecRoundTrip == InitRoundTrip /\ [][NextRoundTrip]_vars

\* A text with its runs of white space collapsed and its ends trimmed.
normaliseWhitespace(x) == trim(collapse(x))

\* C24: leaving the rich-text editor while its view is the rendering of the
\* Document (nothing was typed) leaves a Document equal to the one before up to
\* white space.
C24_RoundTripKeepsDocument ==
    [][ (RichBlur /\ dom = renderHtml(content, highlightedText))
        => normaliseWhitespace(content') = normaliseWhitespace(content) ]_vars

\* C25: whenever there is a selection it is a non-empty span of the Document
\* whose text is the selection's text; and a refine result is spliced into a
\* Document of which the selection it replaces is such a span.
C25_SelectionConsistent ==
    /\ selection # None
       => /\ selection[1].start < selection[1].end
          /\ substring(content, selection[1].start, selection[1].end) = selection[1].text
    /\ \A i \in 1..Len(inflight) :
          inflight[i].op = "refine"
          => substring(content, inflight[i].selection[1].start, inflight[i].selection[1].end)
             = inflight[i].selection[1].text

\* C26: when a refine call succeeds and the Document is still the one the call
\* was issued on, the Document becomes that Document with the selected span
\* replaced by the refined text (the trimmed response, or the selected text when
\* that is empty), and no selection and no menu remain; when the call fails, the
\* selection and the menu stay as they are.
C26_RefineSplices ==
    [][ \A i \in 1..Len(inflight) :
          /\ \A r \in RefineResponses \ {ErrorResponse} :
                (RefineResume(i, r) /\ inflight[i].content = content)
                => LET sel == inflight[i].selection[1]
                       refinedText == IF r.kind = "empty" \/ trim(r.text) = <<>>
                                      THEN sel.text ELSE trim(r.text)
                   IN  /\ content' = substring(content, 0, sel.start) \o refinedText
                                     \o substring(content, sel.end, Len(content))
                       /\ selection' = None
                       /\ menuPosition' = None
          /\ RefineResume(i, ErrorResponse)
             => (selection' = selection /\ menuPosition' = menuPosition) ]_vars

\* A refine has just succeeded and left a Document of more than two characters,
\* no selection and no menu.
C26_RefinedInPlace ==
    /\ out.op = "refine"
    /\ out.outcome = "ok"
    /\ Len(content) > 2
    /\ selection = None
    /\ menuPosition = None

\* ------------------------------------------------ the backend answers
\* Every call that was issued is answered or fails: the promise a handler awaits
\* settles, and the handler resumes.
Settle ==
    \/ \E i \in 1..Len(inflight), r \in DraftResponses : GenerateDraftResume(i, r)
    \/ \E i \in 1..Len(inflight), r \in RefineResponses : RefineResume(i, r)
    \/ \E i \in 1..Len(inflight), r \in ScanResponses : ScanResume(i, r)

\* The operations that start a handler or let it resume, and what the user does
\* to reach them (typing a Document, selecting a span, the view toggle).
NextSettling ==
    \/ \E p \in Prompts, f \in FileCounts : WelcomeSubmit(p, f)
    \/ \E p \in Prompts, f \in FileCounts : SidebarSubmit(p, f)
    \/ \E t \in Instructions : FloatingSubmit(t)
    \/ \E t \in Presets : FloatingPreset(t)
    \/ Analyze
    \/ Settle
    \/ \E d \in Docs : TypeMarkdown(d)
    \/ \E sp \in Spans : MouseUp(sp[1], sp[2])
    \/ \E m \in BOOLEAN : SetRichTextMode(m)

SpecSettling == Init /\ [][NextSettling]_vars /\ WF_vars(Settle)

\* C27: whenever isGenerating is true it becomes false again; and a handler that
\* ends without a call in flight (blank request, missing credential, no
\* selection) leaves it false at once.
C27_ReturnsToIdle ==
    /\ isGenerating ~> ~isGenerating
    /\ [](out.outcome \in {"blank", "error", "skipped"} => ~isGenerating)

\* A draft call issued from the Sidebar is in flight.
C27_DraftInFlight ==
    /\ isGenerating
    /\ ~isWelcome
    /\ Len(inflight) = 1
    /\ inflight[1].op = "draft"

\* C28: a step in which a draft call succeeds leaves the returned draft as the
\* Document (the empty text for a response without text), an empty suggestion
\* batch and no highlight.
C28_DraftReplacesEverything ==
    [][ \A i \in 1..Len(inflight), r \in DraftResponses \ {ErrorResponse} :
          GenerateDraftResume(i, r)
          => /\ content' = (IF r.kind = "empty" THEN <<>> ELSE r.text)
             /\ suggestions' = <<>>
             /\ highlightedText' = None ]_vars

\* A draft call is in flight while the store holds a suggestion and its text is
\* highlighted.
C28_DraftPendingOverSuggestions ==
    /\ Len(inflight) = 1
    /\ inflight[1].op = "draft"
    /\ suggestions # <<>>
    /\ highlightedText # None

\* C29: there is a selection exactly when there is a menu anchor.
C29_SelectionAndAnchorTogether ==
    (selection = None) <=> (menuPosition = None)

\* A span is selected and the menu anchored while a request is pending.
C29_AnchoredWhilePending ==
    /\ selection # None
    /\ menuPosition # None
    /\ isGenerating

\* C30: the highlighted text is none or the originalText of a suggestion in the
\* store.
C30_HighlightIsOfStoredSuggestion ==
    highlightedText # None
    => \E k \in 1..Len(suggestions) : suggestions[k].originalText = highlightedText[1]

====
